---------------------------- MODULE Spec2Model ----------------------------
(***************************************************************************)
(* A model of rebuild_album.py: the two placement primitives               *)
(* (copy_file_with_md5, copy_file_to_album), phase 1 (process_part_phase1) *)
(* and phase 2 (process_album_image) of main().                            *)
(*                                                                         *)
(* The state is the file system the program works on: the Photos folder of *)
(* every source partition, the target root (the staging directory) and the *)
(* album folders below it.  A file is its content; a content has a size    *)
(* and an MD5.  File times are not part of the modelled state.             *)
(***************************************************************************)
EXTENDS Integers, FiniteSets, Sequences, TLC

\* ------------------------------------------------------------------ bounds
\* Source partitions scanned by main() (range(1, 102) in the program).
MaxParts == 2
\* Distinct file contents.
MaxContent == 3
\* Source files carry at most MaxLvl - 1 "_1" suffixes in their names,
\* staged files and files found in the target root at most MaxLvl; the file
\* system holds names with one more, the renames of those.
MaxLvl == 2
\* Files staged when two entries of the album index are processed in either
\* order.
MaxStaged == 2
\* Files the source partitions hold in all.
MaxSrcFiles == 2
\* Files the target root holds before main() starts.
MaxPre == 1
\* Files the target root holds before the copier is called on its own.
MaxPreCopier == 2
\* Passes of phase 1 over an unchanged source.
MaxPasses == 2
\* Entries of the album index.
MaxEntries == 1
\* I/O operations that fail in one behaviour of a specification with faults.
MaxFaults == 1
\* Distinct contents of the files the target root holds at the start.
MaxPreContent == 1
\* Listing files the Albums folders of the source hold in all.
MaxListings == 2
\* Data rows the listing files hold in all.
MaxRows == 2

\* ------------------------------------------------------------------- names
\* A file name is <<k, ext>>: the stem "IMG" followed by k suffixes "_1"
\* and the extension ext.  <<0,"JPG">> is IMG.JPG, <<1,"MOV">> is IMG_1.MOV.
Exts == {"JPG", "MOV"}
FsNames == (0..(MaxLvl + 1)) \X Exts
PreNames == (0..MaxLvl) \X Exts
SrcNames == (0..(MaxLvl - 1)) \X Exts
Albums == {"A", "B"}
Parts == 1..MaxParts

\* os.path.splitext(file_name) followed by f"{base}_1{ext}".
RenamedName(file_name) == <<file_name[1] + 1, file_name[2]>>
\* base + ".MOV" and base + "_1.MOV" of process_album_image.
LivePhotoName(image_name) == <<image_name[1], "MOV">>
LivePhotoRenamedName(image_name) == <<image_name[1] + 1, "MOV">>

\* ---------------------------------------------------------------- contents
\* 0 stands for "no such file"; Trunc is what a copy that failed half-way
\* leaves behind.
Absent == 0
Contents == 1..MaxContent
Trunc == MaxContent + 1
\* os.path.getsize: contents 1 and 2 share a size, 3 has another one.
Size(c) == IF c = Trunc THEN 0 ELSE (c + 1) \div 2
\* compute_md5: distinct contents have distinct digests (no collisions
\* within the bound); the digest is not the content itself.
compute_md5(c) == (7 * c + 3) % 31

EmptyFiles == [n \in FsNames |-> Absent]
NoDir == [exists |-> FALSE, files |-> EmptyFiles]
EmptyDir == [exists |-> TRUE, files |-> EmptyFiles]
Exists(files, n) == n \in FsNames /\ files[n] # Absent

\* ------------------------------------------------------------------ faults
\* The I/O operation of a placement that raises: none, os.path.getsize,
\* compute_md5, shutil.copy2 before it wrote anything, shutil.copy2 after it
\* wrote a part of the file.
NoFault == "none"
PlaceFaults == {"stat", "hash", "copy", "trunc"}

\* shutil.copy2(src, dst): dst is created or overwritten with the content of
\* src; a failing copy leaves dst as it was or truncated.
copy2(files, dst, c, flt) ==
  IF flt = "copy" THEN files
  ELSE IF flt = "trunc" THEN [files EXCEPT ![dst] = Trunc]
  ELSE [files EXCEPT ![dst] = c]
CopyFails(flt) == flt \in {"copy", "trunc"}

\* -------------------------------------------------------------- the copier
None == <<-1, "None">>
\* An exception that leaves the function instead of a return value.
Raised == <<-2, "Raised">>

\* A placement that moves the source file (shutil.move) instead of copying.
SourceAfterPlacement_move(c) == Absent

\* What a placement leaves of its source file: src_file is read (getsize,
\* compute_md5, shutil.copy2) and never written, renamed or removed; the
\* update of its times in process_part_phase1 does not touch its content.
SourceAfterPlacement(c) == c

\* A generate_new_filename that forgets to look for the renamed file.
generate_new_filename_nocheck(files, file_name) == RenamedName(file_name)

\* generate_new_filename: the one-level rename, or None when it is taken.
generate_new_filename(files, file_name) ==
  IF Exists(files, RenamedName(file_name)) THEN None ELSE RenamedName(file_name)

\* A rename branch that copies over the file found when the renamed name
\* is free.
Md5RenameBranch_overwrite(c, file_name, files, flt) ==
  IF Exists(files, RenamedName(file_name)) THEN [files |-> files, ret |-> None]
  ELSE [files |-> copy2(files, file_name, c, flt),
        ret |-> IF CopyFails(flt) THEN None ELSE file_name]

\* The rename branch of copy_file_with_md5 (both its copies in the source).
Md5RenameBranch(c, file_name, files, flt) ==
  LET new_name == generate_new_filename(files, file_name)
  IN  IF new_name = None THEN [files |-> files, ret |-> None]
      ELSE IF CopyFails(flt)
           THEN [files |-> copy2(files, new_name, c, flt), ret |-> None]
           ELSE [files |-> copy2(files, new_name, c, flt), ret |-> new_name]

\* A copy_file_with_md5 that renames whenever the name is taken, without
\* comparing the two files.
copy_file_with_md5_nocompare(c, file_name, files, flt) ==
  IF Exists(files, file_name) THEN Md5RenameBranch(c, file_name, files, flt)
  ELSE [files |-> copy2(files, file_name, c, flt),
        ret |-> IF CopyFails(flt) THEN None ELSE file_name]

\* A copy_file_with_md5 whose copy to a free name is not inside a try: the
\* exception of shutil.copy2 leaves the function.
copy_file_with_md5_notry(c, file_name, files, flt) ==
  IF Exists(files, file_name)
  THEN IF flt = "stat" THEN [files |-> files, ret |-> None]
       ELSE IF Size(c) = Size(files[file_name])
            THEN IF flt = "hash" THEN [files |-> files, ret |-> None]
                 ELSE IF compute_md5(c) = compute_md5(files[file_name])
                      THEN [files |-> files, ret |-> file_name]
                      ELSE Md5RenameBranch(c, file_name, files, flt)
            ELSE Md5RenameBranch(c, file_name, files, flt)
  ELSE [files |-> copy2(files, file_name, c, flt),
        ret |-> IF CopyFails(flt) THEN Raised ELSE file_name]

\* copy_file_with_md5(src_file, dest_dir): c is the content of src_file,
\* file_name its base name, files the content of dest_dir.  ret is the name
\* of the returned path in dest_dir, or None.
copy_file_with_md5(c, file_name, files, flt) ==
  IF Exists(files, file_name)
  THEN IF flt = "stat" THEN [files |-> files, ret |-> None]
       ELSE IF Size(c) = Size(files[file_name])
            THEN IF flt = "hash" THEN [files |-> files, ret |-> None]
                 ELSE IF compute_md5(c) = compute_md5(files[file_name])
                      THEN [files |-> files, ret |-> file_name]
                      ELSE Md5RenameBranch(c, file_name, files, flt)
            ELSE Md5RenameBranch(c, file_name, files, flt)
  ELSE IF CopyFails(flt)
       THEN [files |-> copy2(files, file_name, c, flt), ret |-> None]
       ELSE [files |-> copy2(files, file_name, c, flt), ret |-> file_name]

\* A rename branch that copies over the file found instead of beside it.
AlbumRenameBranch_overwrite(c, file_name, files, flt) ==
  IF Exists(files, RenamedName(file_name)) THEN [files |-> files, ret |-> FALSE]
  ELSE [files |-> copy2(files, file_name, c, flt), ret |-> ~CopyFails(flt)]

\* The rename branch of copy_file_to_album (both its copies in the source).
AlbumRenameBranch(c, file_name, files, flt) ==
  LET renamed_dest == RenamedName(file_name)
  IN  IF Exists(files, renamed_dest) THEN [files |-> files, ret |-> FALSE]
      ELSE [files |-> copy2(files, renamed_dest, c, flt), ret |-> ~CopyFails(flt)]

\* A copy_file_to_album that reports True after a copy to a free name
\* whether or not the copy raised.
copy_file_to_album_swallow(c, file_name, files, flt) ==
  IF Exists(files, RenamedName(file_name)) THEN [files |-> files, ret |-> FALSE]
  ELSE IF Exists(files, file_name)
  THEN IF flt = "stat" THEN [files |-> files, ret |-> FALSE]
       ELSE IF Size(c) = Size(files[file_name])
            THEN IF flt = "hash" THEN [files |-> files, ret |-> FALSE]
                 ELSE IF compute_md5(c) = compute_md5(files[file_name])
                      THEN [files |-> files, ret |-> TRUE]
                      ELSE AlbumRenameBranch(c, file_name, files, flt)
            ELSE AlbumRenameBranch(c, file_name, files, flt)
  ELSE [files |-> copy2(files, file_name, c, flt), ret |-> TRUE]

\* copy_file_to_album(src_file, album_folder): ret is the boolean returned.
copy_file_to_album(c, file_name, files, flt) ==
  IF Exists(files, RenamedName(file_name)) THEN [files |-> files, ret |-> FALSE]
  ELSE IF Exists(files, file_name)
  THEN IF flt = "stat" THEN [files |-> files, ret |-> FALSE]
       ELSE IF Size(c) = Size(files[file_name])
            THEN IF flt = "hash" THEN [files |-> files, ret |-> FALSE]
                 ELSE IF compute_md5(c) = compute_md5(files[file_name])
                      THEN [files |-> files, ret |-> TRUE]
                      ELSE AlbumRenameBranch(c, file_name, files, flt)
            ELSE AlbumRenameBranch(c, file_name, files, flt)
  ELSE [files |-> copy2(files, file_name, c, flt), ret |-> ~CopyFails(flt)]

\* ------------------------------------------------------ process_album_image
\* allowed_albums = None.
NoAllowList == {"None"}
\* The allow-lists main() is run with: none, or album A alone.
AllowLists == {NoAllowList, {"A"}}

\* The I/O operations of one process_album_image call that may raise:
\* os.makedirs of an album folder, the four operations of a placement of the
\* image or of its live photo into an album, os.remove of either staged file.
FaultPoints ==
  ({"mkdir"} \X Albums \X {"-"}) \cup (PlaceFaults \X Albums \X {"img", "live"})
    \cup ({"rm"} \X {"-"} \X {"img", "live"})
\* The fault, if any, that hits the placement of w ("img" or "live") into a.
PlaceFaultAt(flts, a, w) ==
  IF \E k \in PlaceFaults : <<k, a, w>> \in flts
  THEN CHOOSE k \in PlaceFaults : <<k, a, w>> \in flts
  ELSE NoFault

\* An album loop that forgets the allow-list.
AlbumFilter_all(album_set, allowed_albums) == album_set

\* The album loop's filter: the albums whose body is entered.
AlbumFilter(album_set, allowed_albums) ==
  {album \in album_set : allowed_albums = NoAllowList \/ album \in allowed_albums}

\* One iteration of the album loop: the folder is created when missing, the
\* image is placed, then the live photo (live = Absent: there is none).
\* img and live report each placement: "none" (not attempted), "ok", "fail".
AlbumIteration(image_name, c, live, dir, a, flts) ==
  IF ~dir.exists /\ <<"mkdir", a, "-">> \in flts
  THEN [dir |-> dir, img |-> "none", live |-> "none"]
  ELSE LET r1 == copy_file_to_album(c, image_name, dir.files, PlaceFaultAt(flts, a, "img"))
           r2 == IF live = Absent THEN [files |-> r1.files, ret |-> FALSE]
                 ELSE copy_file_to_album(live, LivePhotoName(image_name), r1.files,
                                         PlaceFaultAt(flts, a, "live"))
       IN  [dir |-> [exists |-> TRUE, files |-> r2.files],
            img |-> IF r1.ret THEN "ok" ELSE "fail",
            live |-> IF live = Absent THEN "none" ELSE IF r2.ret THEN "ok" ELSE "fail"]

\* A copied_to_any_album that is set without looking at the result.
CopiedToAny_always(its, entered) == TRUE
\* A copied_to_any_album that counts the placements made instead of the
\* placements that succeeded.
CopiedToAny_attempted(its, entered) ==
  \E a \in entered : its[a].img # "none" \/ its[a].live # "none"

\* copied_to_any_album after the loop.
CopiedToAny(its, entered) ==
  \E a \in entered : its[a].img = "ok" \/ its[a].live = "ok"

\* A removal that clears the target root of all its files.
RemoveStaged_all(st, image_name, live, flts) == EmptyFiles

\* The two os.remove calls, in the program's order.
RemoveStaged(st, image_name, live, flts) ==
  LET s1 == IF <<"rm", "-", "img">> \in flts THEN st
            ELSE [st EXCEPT ![image_name] = Absent]
  IN  IF live = Absent \/ <<"rm", "-", "live">> \in flts THEN s1
      ELSE [s1 EXCEPT ![LivePhotoName(image_name)] = Absent]

\* A process_album_image that does not look for the renamed live photo.
process_album_image_noliverenamed(image_name, album_set, st, albs, allowed_albums, flts) ==
  LET skip(o) == [staging |-> st, albums |-> albs, outcome |-> o, any |-> FALSE,
                  live |-> Absent, entered |-> {},
                  its |-> [a \in Albums |-> [dir |-> albs[a], img |-> "none", live |-> "none"]]]
  IN  IF Exists(st, RenamedName(image_name)) THEN skip("renamed")
      ELSE IF ~Exists(st, image_name) THEN skip("notfound")
      ELSE
        LET live == st[LivePhotoName(image_name)]
            entered == AlbumFilter(album_set, allowed_albums)
            its == [a \in Albums |->
                      IF a \in entered
                      THEN AlbumIteration(image_name, st[image_name], live, albs[a], a, flts)
                      ELSE [dir |-> albs[a], img |-> "none", live |-> "none"]]
            any == CopiedToAny(its, entered)
        IN  [staging |-> IF any THEN RemoveStaged(st, image_name, live, flts) ELSE st,
             albums |-> [a \in Albums |-> its[a].dir],
             outcome |-> IF any THEN "removed" ELSE "retained",
             any |-> any, live |-> live, entered |-> entered, its |-> its]

\* process_album_image(image_name, album_set, target_root, allowed_albums):
\* st is the staging directory, albs the album folders.  outcome names the
\* return taken; its the album loop's reports; any is copied_to_any_album.
process_album_image(image_name, album_set, st, albs, allowed_albums, flts) ==
  LET skip(o) == [staging |-> st, albums |-> albs, outcome |-> o, any |-> FALSE,
                  live |-> Absent, entered |-> {},
                  its |-> [a \in Albums |-> [dir |-> albs[a], img |-> "none", live |-> "none"]]]
  IN  IF Exists(st, RenamedName(image_name)) THEN skip("renamed")
      ELSE IF ~Exists(st, image_name) THEN skip("notfound")
      ELSE IF Exists(st, LivePhotoRenamedName(image_name)) THEN skip("liverenamed")
      ELSE
        LET live == st[LivePhotoName(image_name)]
            entered == AlbumFilter(album_set, allowed_albums)
            its == [a \in Albums |->
                      IF a \in entered
                      THEN AlbumIteration(image_name, st[image_name], live, albs[a], a, flts)
                      ELSE [dir |-> albs[a], img |-> "none", live |-> "none"]]
            any == CopiedToAny(its, entered)
        IN  [staging |-> IF any THEN RemoveStaged(st, image_name, live, flts) ELSE st,
             albums |-> [a \in Albums |-> its[a].dir],
             outcome |-> IF any THEN "removed" ELSE "retained",
             any |-> any, live |-> live, entered |-> entered, its |-> its]

\* ---------------------------------------------- build_global_album_mapping
\* A listing file of an Albums folder is named <<album, ext>>.
ListingExts == {"csv", "CSV", "txt"}
ListingNames == Albums \X ListingExts
\* str.lower() on the extensions in use.
Lower(ext) == IF ext = "CSV" THEN "csv" ELSE ext
\* file.lower().endswith(".csv") and os.path.splitext(file)[0].
IsCsv(file) == Lower(file[2]) = "csv"
AlbumName(file) == file[1]

\* The first cell of a row is a string: a sequence of characters, where a
\* whole image name counts as one character, Blank is a blank and Quote a
\* double quote the csv reader left in place.
Blank == <<-3, " ">>
Quote == <<-4, "quote">>
MapNames == {<<0, "JPG">>, <<0, "MOV">>}
Cells ==
  {<<>>, <<Blank>>} \cup {<<n>> : n \in MapNames}
    \cup {<<Blank, n, Blank>> : n \in MapNames} \cup {<<Quote, n, Quote>> : n \in MapNames}
\* A row of csv.reader: a list of cells, empty for a blank line.
Rows == {<<>>} \cup {<<cell>> : cell \in Cells}
HeaderRow == <<<<<<-5, "Images">>>>>>

\* str.strip(ch) for one character ch.
RECURSIVE LStrip(_, _)
LStrip(str, ch) ==
  IF str # <<>> /\ Head(str) = ch THEN LStrip(Tail(str), ch) ELSE str
RECURSIVE RStrip(_, _)
RStrip(str, ch) ==
  IF str # <<>> /\ str[Len(str)] = ch THEN RStrip(SubSeq(str, 1, Len(str) - 1), ch) ELSE str
Strip(str, ch) == RStrip(LStrip(str, ch), ch)
\* row[0].strip().strip('"')
ImageNameOf(row) == Strip(Strip(row[1], Blank), Quote)

\* A listing file: whether it starts with a header row, and its data rows.
NoFile == [there |-> FALSE, header |-> FALSE, rows |-> <<>>]
\* The rows csv.reader yields for the file.
Lines(file) == IF file.header THEN HeaderRow \o file.rows ELSE file.rows
\* The source without any Albums folder.
NoListing == [p \in Parts |-> [exists |-> FALSE, files |-> [f \in ListingNames |-> NoFile]]]

\* The loop over the rows left after next(reader, None): the image names
\* the file adds to albums_mapping.
RECURSIVE RowsLoop(_)
RowsLoop(lines) ==
  IF lines = <<>> THEN {}
  ELSE LET row == Head(lines)
       IN  IF row = <<>> THEN RowsLoop(Tail(lines))
           ELSE IF ImageNameOf(row) # <<>>
                THEN {ImageNameOf(row)} \cup RowsLoop(Tail(lines))
                ELSE RowsLoop(Tail(lines))
\* The body of the loop over os.listdir(albums_dir) for one csv file.
ReadListingFile(file) ==
  LET lines == Lines(file)
  IN  IF lines = <<>> THEN {} ELSE RowsLoop(Tail(lines))

\* build_global_album_mapping(source_root): lst[p] is the Albums folder of
\* partition p.  Image names without album have no entry (the empty set).
build_global_album_mapping(lst) ==
  [n \in SrcNames |->
     {AlbumName(f) : f \in {g \in ListingNames :
        \E p \in Parts : /\ lst[p].exists /\ lst[p].files[g].there /\ IsCsv(g)
                         /\ <<n>> \in ReadListingFile(lst[p].files[g])}}]

\* ------------------------------------------------------------------- state
VARIABLES
  source,   \* source[p]: the Photos folder of partition p
  staging,  \* the files of target_root
  albums,   \* albums[a]: the folder target_root/a
  allowed,  \* allowed_albums of main()
  index,    \* albums_mapping: image name -> set of album names
  pc,       \* where the driver is
  part,     \* phase 1: the partition being processed
  rest,     \* phase 1: the entries of os.listdir still to process
  todo,     \* phase 2: the entries of albums_mapping still to process
  call,     \* the last call made, its arguments, and what it returned
  budget,   \* I/O faults that may still happen
  pass,     \* the number of the phase-1 pass
  snap,     \* the staging directory as the previous phase-1 pass left it
  gone,     \* what phase 2 removed from staging, per entry of albums_mapping
  listing,  \* listing[p]: the Albums folder of partition p
  left,     \* the partitions still to process when their order is free
  alt,      \* the target root as the reference order of the run leaves it
  race      \* two concurrent calls of a placement: where each one is

vars == <<source, staging, albums, allowed, index, pc, part, rest, todo, call,
          budget, pass, snap, gone, listing, left, alt, race>>

RECURSIVE SubsetsUpTo(_, _)
SubsetsUpTo(S, k) ==
  IF k = 0 THEN {{}}
  ELSE LET T == SubsetsUpTo(S, k - 1) IN T \cup {t \cup {x} : t \in T, x \in S}

\* Partial assignments of contents to at most k of the places P.
Sparse(P, k, C) == UNION {[Q -> C] : Q \in SubsetsUpTo(P, k)}

\* The source tree that holds the files f; the partitions of missing have no
\* Photos folder.
MkSource(f, missing) ==
  [p \in Parts |->
     [exists |-> p \notin missing,
      files |-> [n \in FsNames |-> IF <<p, n>> \in DOMAIN f THEN f[<<p, n>>] ELSE Absent]]]
\* The files f of a target root: the staging directory and album a.
MkStaging(f) ==
  [n \in FsNames |-> IF <<"staging", n>> \in DOMAIN f THEN f[<<"staging", n>>] ELSE Absent]
MkAlbum(f, a) ==
  [n \in FsNames |-> IF <<a, n>> \in DOMAIN f THEN f[<<a, n>>] ELSE Absent]

\* Contents of the files found in the target root at the start.
PreContents == 1..MaxPreContent
TargetPlaces == ({"staging"} \cup Albums) \X PreNames

NoCall == [op |-> "none"]
NoAlt == [staging |-> EmptyFiles, albums |-> [a \in Albums |-> NoDir]]
NoRace == [fn |-> "none"]
NoIndex == [n \in SrcNames |-> {}]
NothingGone == [n \in SrcNames |-> [img |-> Absent, live |-> Absent]]

\* albums_mapping has an entry for the names with a non-empty album set.
Entries(idx) == {n \in DOMAIN idx : idx[n] # {}}
IndexChoices ==
  {idx \in [SrcNames -> SUBSET Albums] : Cardinality(Entries(idx)) <= MaxEntries}

\* Fault sets of one process_album_image call, within the budget b.
FaultSets(b) ==
  {F \in SubsetsUpTo(FaultPoints, b) :
     \A a \in Albums, w \in {"img", "live"} :
       Cardinality({k \in PlaceFaults : <<k, a, w>> \in F}) <= 1}
\* Faults of one placement, within the budget b.
PlaceFaultChoices(b) == IF b > 0 THEN PlaceFaults \cup {NoFault} ELSE {NoFault}
Cost(flt) == IF flt = NoFault THEN 0 ELSE 1

\* ------------------------------------------------------------- the driver
\* main(): target_root may hold files of an earlier run; phase 1 starts
\* with partition 1.
Init ==
  /\ \E f \in Sparse(Parts \X SrcNames, MaxSrcFiles, Contents) :
       \E missing \in SUBSET {p \in Parts : \A n \in SrcNames : <<p, n>> \notin DOMAIN f} :
         source = MkSource(f, missing)
  /\ \E g \in Sparse(TargetPlaces, MaxPre, PreContents) :
       /\ staging = MkStaging(g)
       /\ albums = [a \in Albums |->
                      [exists |-> \E n \in PreNames : <<a, n>> \in DOMAIN g,
                       files |-> MkAlbum(g, a)]]
  /\ allowed \in AllowLists
  /\ index = NoIndex
  /\ pc = "part" /\ part = 1 /\ rest = {} /\ todo = {}
  /\ call = NoCall /\ budget = 0 /\ pass = 1 /\ snap = EmptyFiles
  /\ gone = NothingGone
  /\ listing = NoListing
  /\ left = {} /\ alt = NoAlt /\ race = NoRace

\* The end of process_part_phase1 for the current partition.
NextPart ==
  IF part = MaxParts THEN pc' = "mapping" /\ part' = part
  ELSE pc' = "part" /\ part' = part + 1

\* process_part_phase1 up to its loop: a partition without Photos folder is
\* skipped; os.listdir gives the entries to process.
Phase1Part ==
  /\ pc = "part"
  /\ LET entries == {n \in SrcNames : Exists(source[part].files, n)}
     IN  IF ~source[part].exists \/ entries = {}
         THEN rest' = {} /\ NextPart
         ELSE rest' = entries /\ pc' = "files" /\ part' = part
  /\ UNCHANGED <<source, staging, albums, allowed, index, todo, call, budget,
                 pass, snap, gone, listing,
                 left, alt, race>>

\* One iteration of the loop of process_part_phase1: the next entry, in the
\* order os.listdir gave, is copied into target_root.  Neither the loop nor
\* main() has a try: an exception leaving the call ends the run.
Phase1File ==
  /\ pc = "files"
  /\ \E entry \in rest, flt \in PlaceFaultChoices(budget) :
       LET c == source[part].files[entry]
           r == copy_file_with_md5(c, entry, staging, flt)
       IN  /\ staging' = r.files
           /\ source' = [source EXCEPT ![part].files[entry] = SourceAfterPlacement(c)]
           /\ call' = [op |-> "copy_file_with_md5", name |-> entry, c |-> c,
                       dest |-> "staging", flt |-> flt, ret |-> r.ret,
                       pre |-> staging, preAlbums |-> albums]
           /\ budget' = budget - Cost(flt)
           /\ rest' = rest \ {entry}
           /\ IF r.ret = Raised THEN pc' = "crashed" /\ part' = part
              ELSE IF rest' = {} THEN NextPart ELSE pc' = "files" /\ part' = part
  /\ UNCHANGED <<albums, allowed, index, todo, pass, snap, gone, listing,
                 left, alt, race>>

\* build_global_album_mapping as main() sees it: whatever the listing files
\* of the source are, some mapping comes out, and any mapping within the
\* bound may (SpecMapping computes it from the listing files).
BuildMapping ==
  /\ pc = "mapping"
  /\ \E idx \in IndexChoices :
       /\ index' = idx
       /\ todo' = Entries(idx)
       /\ pc' = IF Entries(idx) = {} THEN "done" ELSE "albums"
  /\ UNCHANGED <<source, staging, albums, allowed, part, rest, call, budget,
                 pass, snap, gone, listing,
                 left, alt, race>>

\* What a process_album_image call removed from staging.
Removed(pre, post, image_name) ==
  [img |-> IF post[image_name] = Absent THEN pre[image_name] ELSE Absent,
   live |-> IF post[LivePhotoName(image_name)] = Absent
            THEN pre[LivePhotoName(image_name)] ELSE Absent]

\* One iteration of the loop of main() over albums_mapping.items().
Phase2Image ==
  /\ pc = "albums"
  /\ \E image_name \in todo, flts \in FaultSets(budget) :
       LET r == process_album_image(image_name, index[image_name], staging, albums,
                                    allowed, flts)
       IN  /\ staging' = r.staging
           /\ albums' = r.albums
           /\ call' = [op |-> "process_album_image", name |-> image_name,
                       album_set |-> index[image_name], flts |-> flts,
                       pre |-> staging, preAlbums |-> albums,
                       outcome |-> r.outcome, any |-> r.any, live |-> r.live,
                       entered |-> r.entered,
                       img |-> [a \in Albums |-> r.its[a].img],
                       liv |-> [a \in Albums |-> r.its[a].live]]
           /\ gone' = [gone EXCEPT ![image_name] = Removed(staging, r.staging, image_name)]
           /\ budget' = budget - Cardinality(flts)
           /\ todo' = todo \ {image_name}
           /\ pc' = IF todo' = {} THEN "done" ELSE "albums"
  /\ UNCHANGED <<source, allowed, index, part, rest, pass, snap, listing,
                 left, alt, race>>

Next == Phase1Part \/ Phase1File \/ BuildMapping \/ Phase2Image

Spec == Init /\ [][Next]_vars

\* main() in an environment where I/O operations may fail: an empty target
\* root, no allow-list, and up to MaxFaults failing operations.
InitFaulty ==
  /\ \E f \in Sparse(Parts \X SrcNames, MaxSrcFiles, Contents) : source = MkSource(f, {})
  /\ staging = EmptyFiles
  /\ albums = [a \in Albums |-> NoDir]
  /\ allowed = NoAllowList
  /\ index = NoIndex
  /\ pc = "part" /\ part = 1 /\ rest = {} /\ todo = {}
  /\ call = NoCall /\ budget = MaxFaults /\ pass = 1 /\ snap = EmptyFiles
  /\ gone = NothingGone
  /\ listing = NoListing
  /\ left = {} /\ alt = NoAlt /\ race = NoRace

SpecFaulty == InitFaulty /\ [][Next]_vars

\* The same run; main() is sequential code that runs on until it returns or
\* an exception ends it.
SpecFaultyFair == InitFaulty /\ [][Next]_vars /\ WF_vars(Next)

\* --------------------------------------------------- the copier on its own
\* The placement primitives called directly: any source file into the
\* staging directory, any staged file into any album folder.
InitCopier ==
  /\ \E f \in Sparse(Parts \X SrcNames, 1, Contents) : source = MkSource(f, {})
  /\ \E g \in Sparse(TargetPlaces, MaxPreCopier, PreContents) :
       /\ staging = MkStaging(g)
       /\ albums = [a \in Albums |-> [exists |-> TRUE, files |-> MkAlbum(g, a)]]
  /\ allowed = NoAllowList /\ index = NoIndex
  /\ pc = "copier" /\ part = 1 /\ rest = {} /\ todo = {}
  /\ call = NoCall /\ budget = 0 /\ pass = 1 /\ snap = EmptyFiles
  /\ gone = NothingGone
  /\ listing = NoListing
  /\ left = {} /\ alt = NoAlt /\ race = NoRace

CallCopyWithMd5 ==
  /\ pc = "copier"
  /\ \E p \in Parts, n \in SrcNames, flt \in PlaceFaultChoices(budget) :
       /\ Exists(source[p].files, n)
       /\ LET c == source[p].files[n]
              r == copy_file_with_md5(c, n, staging, flt)
          IN  /\ staging' = r.files
              /\ source' = [source EXCEPT ![p].files[n] = SourceAfterPlacement(c)]
              /\ call' = [op |-> "copy_file_with_md5", name |-> n, c |-> c,
                          dest |-> "staging", flt |-> flt, ret |-> r.ret,
                          pre |-> staging, preAlbums |-> albums]
              /\ budget' = budget - Cost(flt)
  /\ UNCHANGED <<albums, allowed, index, pc, part, rest, todo, pass, snap, gone, listing,
                 left, alt, race>>

CallCopyToAlbum ==
  /\ pc = "copier"
  /\ \E n \in SrcNames, a \in Albums, flt \in PlaceFaultChoices(budget) :
       /\ Exists(staging, n)
       /\ albums[a].exists
       /\ LET c == staging[n]
              r == copy_file_to_album(c, n, albums[a].files, flt)
          IN  /\ albums' = [albums EXCEPT ![a].files = r.files]
              /\ call' = [op |-> "copy_file_to_album", name |-> n, c |-> c,
                          dest |-> a, flt |-> flt, ret |-> r.ret,
                          pre |-> staging, preAlbums |-> albums]
              /\ budget' = budget - Cost(flt)
  /\ UNCHANGED <<source, staging, allowed, index, pc, part, rest, todo, pass, snap, gone, listing,
                 left, alt, race>>

NextCopier == CallCopyWithMd5 \/ CallCopyToAlbum

SpecCopier == InitCopier /\ [][NextCopier]_vars

\* The placement primitives called directly while I/O operations may fail.
InitCopierFaulty ==
  /\ \E f \in Sparse(Parts \X SrcNames, 1, Contents) : source = MkSource(f, {})
  /\ \E g \in Sparse(TargetPlaces, MaxPre, PreContents) :
       /\ staging = MkStaging(g)
       /\ albums = [a \in Albums |-> [exists |-> TRUE, files |-> MkAlbum(g, a)]]
  /\ allowed = NoAllowList /\ index = NoIndex
  /\ pc = "copier" /\ part = 1 /\ rest = {} /\ todo = {}
  /\ call = NoCall /\ budget = MaxFaults /\ pass = 1 /\ snap = EmptyFiles
  /\ gone = NothingGone
  /\ listing = NoListing
  /\ left = {} /\ alt = NoAlt /\ race = NoRace

SpecCopierFaulty == InitCopierFaulty /\ [][NextCopier]_vars

\* --------------------------------------------- phase 2 in either order
\* An order of file names: by number of suffixes, then JPG before MOV.
Before(n, m) == n[1] < m[1] \/ (n[1] = m[1] /\ (n[2] = m[2] \/ n[2] = "JPG"))
Least(S) == CHOOSE n \in S : \A m \in S : Before(n, m)

\* The loop of main() over albums_mapping.items() when the dict yields the
\* entries S in that order.
RECURSIVE Phase2InOrder(_, _, _, _, _)
Phase2InOrder(S, st, albs, idx, allowed_albums) ==
  IF S = {} THEN [staging |-> st, albums |-> albs]
  ELSE LET image_name == Least(S)
           r == process_album_image(image_name, idx[image_name], st, albs,
                                    allowed_albums, {})
       IN  Phase2InOrder(S \ {image_name}, r.staging, r.albums, idx, allowed_albums)

\* Contents of the files staged at the start of phase 2.
StagedContents == 1..(MaxPreContent + 1)
\* Album indexes of two entries, over the names staged files may have.
OrderIndexChoices ==
  {idx \in [PreNames -> SUBSET Albums] : Cardinality(Entries(idx)) = 2}

\* Phase 2 of main() on any staging directory, with an album folder A of an
\* earlier run, for an album index of two entries.
InitOrder2 ==
  /\ source = MkSource(<<>>, {})
  /\ \E g \in Sparse({"staging"} \X PreNames, MaxStaged, StagedContents) :
       staging = MkStaging(g)
  /\ \E h \in Sparse({"A"} \X PreNames, MaxPre, PreContents) :
       albums = [a \in Albums |->
                   [exists |-> \E n \in PreNames : <<a, n>> \in DOMAIN h,
                    files |-> MkAlbum(h, a)]]
  /\ allowed = NoAllowList
  /\ index \in OrderIndexChoices
  /\ todo = Entries(index)
  /\ alt = Phase2InOrder(Entries(index), staging, albums, index, allowed)
  /\ pc = "albums" /\ part = MaxParts /\ rest = {} /\ left = {} /\ race = NoRace
  /\ call = NoCall /\ budget = 0 /\ pass = 1 /\ snap = EmptyFiles
  /\ gone = [n \in PreNames |-> [img |-> Absent, live |-> Absent]]
  /\ listing = NoListing

NextOrder2 == Phase2Image

SpecOrder2 == InitOrder2 /\ [][NextOrder2]_vars

\* --------------------------------------------- phase 1 in either order
\* The loop of process_part_phase1 when os.listdir yields the entries in
\* the order of their names; files are the files of the Photos folder.
RECURSIVE Phase1Loop(_, _, _)
Phase1Loop(entries, files, st) ==
  IF entries = {} THEN st
  ELSE LET entry == Least(entries)
           r == copy_file_with_md5(files[entry], entry, st, NoFault)
       IN  Phase1Loop(entries \ {entry}, files, r.files)

\* process_part_phase1(part_number, source_root, target_root): photos_dir
\* is the Photos folder of the partition, st the target root.
process_part_phase1(photos_dir, st) ==
  IF ~photos_dir.exists THEN st
  ELSE Phase1Loop({n \in SrcNames : Exists(photos_dir.files, n)}, photos_dir.files, st)

\* The loop of main() over range(1, 102), from partition p on.
RECURSIVE Phase1InOrder(_, _, _)
Phase1InOrder(p, src, st) ==
  IF p > MaxParts THEN st
  ELSE Phase1InOrder(p + 1, src, process_part_phase1(src[p], st))

\* Phase 1 with the partitions taken in any order; the reference is the
\* order of main().  snap keeps the target root as it was found.
InitOrder1 ==
  /\ \E f \in Sparse(Parts \X SrcNames, MaxSrcFiles + 1, Contents) :
       \E missing \in SUBSET {p \in Parts : \A n \in SrcNames : <<p, n>> \notin DOMAIN f} :
         source = MkSource(f, missing)
  /\ \E g \in Sparse({"staging"} \X PreNames, MaxPre, PreContents) : staging = MkStaging(g)
  /\ albums = [a \in Albums |-> NoDir]
  /\ allowed = NoAllowList /\ index = NoIndex
  /\ pc = "parts" /\ part = 1 /\ rest = {} /\ todo = {}
  /\ left = Parts /\ race = NoRace
  /\ alt = [staging |-> Phase1InOrder(1, source, staging), albums |-> albums]
  /\ call = NoCall /\ budget = 0 /\ pass = 1 /\ snap = staging
  /\ gone = NothingGone
  /\ listing = NoListing

\* process_part_phase1 for any partition not yet processed.
Phase1AnyPart ==
  /\ pc = "parts"
  /\ \E p \in left :
       /\ staging' = process_part_phase1(source[p], staging)
       /\ left' = left \ {p}
       /\ part' = p
       /\ call' = [op |-> "process_part_phase1", part |-> p,
                   pre |-> staging, preAlbums |-> albums]
       /\ pc' = IF left' = {} THEN "mapping" ELSE "parts"
  /\ UNCHANGED <<source, albums, allowed, index, rest, todo, budget, pass, snap,
                 gone, listing, alt, race>>

NextOrder1 == Phase1AnyPart

SpecOrder1 == InitOrder1 /\ [][NextOrder1]_vars

\* ---------------------------------------------- two concurrent placements
\* Two workers call the same placement primitive for the same file name and
\* the same destination directory, without a lock.  A call is a sequence of
\* system calls; the calls of the two workers interleave in any way.
Workers == {"w1", "w2"}
Other(w) == CHOOSE v \in Workers : v # w
\* What two copies written over each other may leave, if neither content.
Mixed == MaxContent + 2

\* The destination directory of the two calls: target_root for
\* copy_file_with_md5, the album folder A for copy_file_to_album.
RaceDir == IF race.fn = "copy_file_with_md5" THEN staging ELSE albums["A"].files
WriteRaceDir(files) ==
  IF race.fn = "copy_file_with_md5"
  THEN staging' = files /\ albums' = albums
  ELSE staging' = staging /\ albums' = [albums EXCEPT !["A"].files = files]
\* The values the primitive returns.
Failure == IF race.fn = "copy_file_with_md5" THEN None ELSE FALSE
Success(target) == IF race.fn = "copy_file_with_md5" THEN target ELSE TRUE

\* An open that refuses to write to a name that exists (exclusive create).
OpenForWrite_excl(files, target) ==
  IF Exists(files, target) THEN [ok |-> FALSE, files |-> files]
  ELSE [ok |-> TRUE, files |-> [files EXCEPT ![target] = Trunc]]

\* shutil.copy2 opens its destination for writing: the file is created, or
\* emptied when it exists.
OpenForWrite(files, target) ==
  [ok |-> TRUE, files |-> [files EXCEPT ![target] = Trunc]]

InitRace ==
  /\ source = MkSource(<<>>, {})
  /\ \E g \in Sparse({"staging", "A"} \X PreNames, MaxPre, PreContents) :
       /\ staging = MkStaging(g)
       /\ albums = [a \in Albums |-> [exists |-> a = "A", files |-> MkAlbum(g, a)]]
  /\ \E fn \in {"copy_file_with_md5", "copy_file_to_album"}, n \in SrcNames,
        c1 \in Contents, c2 \in Contents :
       race = [fn |-> fn, name |-> n,
               pre |-> IF fn = "copy_file_with_md5" THEN staging ELSE albums["A"].files,
               wk |-> [w \in Workers |->
                         [pc |-> IF fn = "copy_file_to_album" THEN "early" ELSE "check",
                          c |-> IF w = "w1" THEN c1 ELSE c2,
                          target |-> n, saw |-> "-", over |-> FALSE,
                          ret |-> IF fn = "copy_file_with_md5" THEN None ELSE FALSE]]]
  /\ allowed = NoAllowList /\ index = NoIndex
  /\ pc = "race" /\ part = 1 /\ rest = {} /\ todo = {}
  /\ call = NoCall /\ budget = 0 /\ pass = 1 /\ snap = EmptyFiles
  /\ gone = NothingGone
  /\ listing = NoListing
  /\ left = {} /\ alt = NoAlt

\* What a step of worker w leaves unchanged besides the directories.
RaceFrame ==
  UNCHANGED <<source, allowed, index, pc, part, rest, todo, call, budget, pass, snap,
              gone, listing, left, alt>>
Returns(w, v) == race' = [race EXCEPT !.wk[w].pc = "done", !.wk[w].ret = v]

\* copy_file_to_album: the test for the renamed file before anything else.
EarlyCheck(w) ==
  /\ pc = "race" /\ race.wk[w].pc = "early"
  /\ IF Exists(RaceDir, RenamedName(race.name))
     THEN Returns(w, FALSE)
     ELSE race' = [race EXCEPT !.wk[w].pc = "check"]
  /\ UNCHANGED <<staging, albums>> /\ RaceFrame

\* os.path.exists(dest_file).
CheckExists(w) ==
  /\ pc = "race" /\ race.wk[w].pc = "check"
  /\ IF Exists(RaceDir, race.name)
     THEN race' = [race EXCEPT !.wk[w].pc = "compare", !.wk[w].saw = "exists"]
     ELSE race' = [race EXCEPT !.wk[w].pc = "open", !.wk[w].saw = "absent"]
  /\ UNCHANGED <<staging, albums>> /\ RaceFrame

\* The comparison of sizes and hashes with the file found.
Compare(w) ==
  /\ pc = "race" /\ race.wk[w].pc = "compare"
  /\ LET c == race.wk[w].c
         d == RaceDir[race.name]
     IN  IF Size(c) = Size(d) /\ compute_md5(c) = compute_md5(d)
         THEN Returns(w, Success(race.name))
         ELSE race' = [race EXCEPT !.wk[w].pc = "gen"]
  /\ UNCHANGED <<staging, albums>> /\ RaceFrame

\* The test for the renamed file in the rename branch.
CheckRenamed(w) ==
  /\ pc = "race" /\ race.wk[w].pc = "gen"
  /\ IF Exists(RaceDir, RenamedName(race.name))
     THEN Returns(w, Failure)
     ELSE race' = [race EXCEPT !.wk[w].pc = "open",
                               !.wk[w].target = RenamedName(race.name)]
  /\ UNCHANGED <<staging, albums>> /\ RaceFrame

\* shutil.copy2 starts: the destination is opened for writing.  When the
\* other worker is writing the same file, the two copies overlap.
StartCopy(w) ==
  /\ pc = "race" /\ race.wk[w].pc = "open"
  /\ LET o == OpenForWrite(RaceDir, race.wk[w].target)
         v == Other(w)
         overlap == race.wk[v].pc = "write" /\ race.wk[v].target = race.wk[w].target
     IN  IF ~o.ok
         THEN Returns(w, Failure) /\ UNCHANGED <<staging, albums>>
         ELSE /\ WriteRaceDir(o.files)
              /\ race' = [race EXCEPT !.wk[w].pc = "write",
                                        !.wk[w].over = overlap,
                                        !.wk[v].over = @ \/ overlap]
  /\ RaceFrame

\* shutil.copy2 ends and the call returns the path (True).  A copy that did
\* not overlap another leaves its content; of two that overlapped, the file
\* stays in the making until the second ends, and then holds either content
\* or a mix.
FinishCopy(w) ==
  /\ pc = "race" /\ race.wk[w].pc = "write"
  /\ LET t == race.wk[w].target
         v == Other(w)
     IN  \E d \in {race.wk[w].c, race.wk[v].c, Mixed} :
           /\ ~race.wk[w].over => d = race.wk[w].c
           /\ IF race.wk[w].over /\ race.wk[v].pc = "write"
              THEN UNCHANGED <<staging, albums>> /\ d = race.wk[w].c
              ELSE WriteRaceDir([RaceDir EXCEPT ![t] = d])
           /\ Returns(w, Success(t))
  /\ RaceFrame

NextRace ==
  \E w \in Workers :
    \/ EarlyCheck(w) \/ CheckExists(w) \/ Compare(w)
    \/ CheckRenamed(w) \/ StartCopy(w) \/ FinishCopy(w)

SpecRace == InitRace /\ [][NextRace]_vars

\* ------------------------------------------------------ the album mapping
\* The rows of the file at place, in the order they were written.
RECURSIVE RowsAt(_, _)
RowsAt(rws, place) ==
  IF rws = <<>> THEN <<>>
  ELSE IF Head(rws)[1] = place THEN <<Head(rws)[2]>> \o RowsAt(Tail(rws), place)
       ELSE RowsAt(Tail(rws), place)
\* The Albums folders that hold the files F, those of headed with a header
\* row, and the data rows rws; the partitions of missing have no Albums
\* folder.
MkListing(F, headed, rws, missing) ==
  [p \in Parts |->
     [exists |-> p \notin missing,
      files |-> [f \in ListingNames |->
                   IF <<p, f>> \in F
                   THEN [there |-> TRUE, header |-> <<p, f>> \in headed,
                         rows |-> RowsAt(rws, <<p, f>>)]
                   ELSE NoFile]]]

\* build_global_album_mapping called on a source whose Albums folders hold
\* any listing files within the bounds.
InitMapping ==
  /\ \E F \in SubsetsUpTo(Parts \X ListingNames, MaxListings) :
       \E headed \in SUBSET F,
          rws \in UNION {[1..k -> F \X Rows] : k \in 0..MaxRows},
          missing \in SUBSET {p \in Parts : \A f \in ListingNames : <<p, f>> \notin F} :
         listing = MkListing(F, headed, rws, missing)
  /\ source = MkSource(<<>>, {})
  /\ staging = EmptyFiles
  /\ albums = [a \in Albums |-> NoDir]
  /\ allowed = NoAllowList /\ index = NoIndex
  /\ pc = "mapping" /\ part = MaxParts /\ rest = {} /\ todo = {}
  /\ call = NoCall /\ budget = 0 /\ pass = 1 /\ snap = EmptyFiles
  /\ gone = NothingGone
  /\ left = {} /\ alt = NoAlt /\ race = NoRace

\* albums_mapping = build_global_album_mapping(source_root) in main().
CallBuildMapping ==
  /\ pc = "mapping"
  /\ index' = build_global_album_mapping(listing)
  /\ todo' = Entries(index')
  /\ call' = [op |-> "build_global_album_mapping"]
  /\ pc' = "mapped"
  /\ UNCHANGED <<source, staging, albums, allowed, part, rest, budget, pass, snap,
                 gone, listing,
                 left, alt, race>>

NextMapping == CallBuildMapping

SpecMapping == InitMapping /\ [][NextMapping]_vars

\* ----------------------------------------------------------- phase 1 again
\* Phase 1 run over all partitions, then run again over the unchanged
\* source.
InitIdem ==
  /\ \E f \in Sparse(Parts \X SrcNames, MaxSrcFiles + 1, Contents) : source = MkSource(f, {})
  /\ \E g \in Sparse({"staging"} \X PreNames, MaxPre, PreContents) : staging = MkStaging(g)
  /\ albums = [a \in Albums |-> NoDir]
  /\ allowed = NoAllowList /\ index = NoIndex
  /\ pc = "part" /\ part = 1 /\ rest = {} /\ todo = {}
  /\ call = NoCall /\ budget = 0 /\ pass = 1 /\ snap = EmptyFiles
  /\ gone = NothingGone
  /\ listing = NoListing
  /\ left = {} /\ alt = NoAlt /\ race = NoRace

\* The loop of main() over the partitions, started again.
Phase1Again ==
  /\ pc = "mapping"
  /\ pass < MaxPasses
  /\ pass' = pass + 1
  /\ snap' = staging
  /\ pc' = "part" /\ part' = 1 /\ rest' = {}
  /\ UNCHANGED <<source, staging, albums, allowed, index, todo, call, budget, gone, listing,
                 left, alt, race>>

NextIdem == Phase1Part \/ Phase1File \/ Phase1Again

SpecIdem == InitIdem /\ [][NextIdem]_vars

\* ------------------------------------------------------------- the claims
\* The last call was a placement; the destination directory before and
\* after it; whether it reported success (a path, or True).
Placement == call.op \in {"copy_file_with_md5", "copy_file_to_album"}
DestBefore == IF call.dest = "staging" THEN call.pre ELSE call.preAlbums[call.dest].files
DestAfter == IF call.dest = "staging" THEN staging ELSE albums[call.dest].files
ReportsSuccess ==
  IF call.op = "copy_file_with_md5" THEN call.ret # None ELSE call.ret = TRUE
TargetUntouched == staging = call.pre /\ albums = call.preAlbums
\* Equal size and equal hash.
SameFile(c, d) == Size(c) = Size(d) /\ compute_md5(c) = compute_md5(d)

\* C1: a placement made when destDir/basename(src) does not exist, whose copy
\* does not fail, leaves destDir/basename(src) with the content of src and
\* reports success, whatever else the destination directory holds.
C1_AbsentIsPlaced ==
  (Placement /\ call.flt = NoFault /\ ~Exists(DestBefore, call.name))
    => (DestAfter[call.name] = call.c /\ ReportsSuccess)

\* C1, as the code has it: copy_file_with_md5 places the file whatever else
\* the directory holds.
C1_Md5AbsentIsPlaced ==
  (call.op = "copy_file_with_md5" /\ call.flt = NoFault /\ ~Exists(DestBefore, call.name))
    => (DestAfter = [DestBefore EXCEPT ![call.name] = call.c] /\ call.ret = call.name)

\* C2: a placement made when destDir/basename(src) exists with the size and
\* the hash of src leaves the destination directory as it was and reports
\* success with the existing path, whatever else the directory holds.
C2_DuplicateIsNoop ==
  (Placement /\ Exists(DestBefore, call.name) /\ SameFile(call.c, DestBefore[call.name]))
    => /\ TargetUntouched
       /\ ReportsSuccess
       /\ call.op = "copy_file_with_md5" => call.ret = call.name

\* C3: a placement made when destDir/basename(src) exists with another
\* content (another size, or the same size and another hash) and the renamed
\* name is free creates the renamed file with the content of src, leaves the
\* file found unchanged and reports success.
C3_RenamedPlaced ==
  (Placement /\ call.flt = NoFault /\ Exists(DestBefore, call.name)
     /\ ~SameFile(call.c, DestBefore[call.name])
     /\ ~Exists(DestBefore, RenamedName(call.name)))
    => /\ DestAfter = [DestBefore EXCEPT ![RenamedName(call.name)] = call.c]
       /\ DestAfter[call.name] = DestBefore[call.name]
       /\ ReportsSuccess
       /\ call.op = "copy_file_with_md5" => call.ret = RenamedName(call.name)

\* C3's case: copy_file_to_album found a file of the same size and another
\* hash, and placed the renamed copy.
C3_Witness ==
  /\ call.op = "copy_file_to_album"
  /\ Exists(DestBefore, call.name)
  /\ Size(call.c) = Size(DestBefore[call.name])
  /\ compute_md5(call.c) # compute_md5(DestBefore[call.name])
  /\ ~Exists(DestBefore, RenamedName(call.name))
  /\ DestAfter[RenamedName(call.name)] = call.c
  /\ call.ret = TRUE

\* C4: a placement made when destDir/basename(src) and its renamed name both
\* exist and the file found differs from src writes nothing and is skipped
\* (None, False).
C4_RenameConflictSkipped ==
  (Placement /\ Exists(DestBefore, call.name)
     /\ ~SameFile(call.c, DestBefore[call.name])
     /\ Exists(DestBefore, RenamedName(call.name)))
    => (TargetUntouched /\ ~ReportsSuccess)

\* C4's case: copy_file_with_md5 found both names taken, by a file of
\* another size, and returned None.
C4_Witness ==
  /\ call.op = "copy_file_with_md5"
  /\ Exists(DestBefore, call.name)
  /\ Size(call.c) # Size(DestBefore[call.name])
  /\ Exists(DestBefore, RenamedName(call.name))
  /\ call.ret = None
  /\ staging = call.pre

\* C5: a second pass of phase 1 over the unchanged source creates no file in
\* staging and changes none: in every later pass the staging directory is
\* what the pass before left.
C5_Phase1Idempotent == pass > 1 => staging = snap

\* C5's case: the second pass is over; of two same-named source files one
\* sits in staging under the renamed name and the other was skipped in both
\* passes (its content is under neither name).
C5_Witness ==
  /\ pass = 2 /\ pc = "mapping"
  /\ call.op = "copy_file_with_md5"
  /\ \E n \in SrcNames, p \in Parts, q \in Parts :
       /\ Exists(staging, n) /\ Exists(staging, RenamedName(n))
       /\ Exists(source[p].files, n) /\ Exists(source[q].files, n)
       /\ source[p].files[n] = staging[RenamedName(n)]
       /\ source[q].files[n] \notin {staging[n], staging[RenamedName(n)]}

\* The last call was process_album_image; it got past its three early
\* returns; one of its placements returned True.
Distribution == call.op = "process_album_image"
ReachedLoop == call.outcome \in {"removed", "retained"}
AnyPlacementSucceeded == \E a \in Albums : call.img[a] = "ok" \/ call.liv[a] = "ok"
\* Album a holds a file with content c under the name n or its renamed name.
HasCopy(a, n, c) ==
  albums[a].exists /\ (albums[a].files[n] = c \/ albums[a].files[RenamedName(n)] = c)

\* C6: process_album_image deletes the staged image, and its live photo if
\* there is one, if and only if one of the placements it attempted
\* succeeded; when none did, staging is left as it was.
C6_RemovedIffPlaced ==
  Distribution =>
    IF AnyPlacementSucceeded
    THEN staging = [call.pre EXCEPT ![call.name] = Absent,
                                    ![LivePhotoName(call.name)] = Absent]
    ELSE staging = call.pre

\* C6's case: a placement was attempted and skipped, none succeeded, and the
\* staged image is still there.
C6_Witness ==
  /\ Distribution /\ ReachedLoop
  /\ \E a \in call.entered : call.img[a] = "fail"
  /\ ~AnyPlacementSucceeded
  /\ Exists(staging, call.name)

\* C7: whenever process_album_image has deleted the staged image, some album
\* holds a file with the content of that image, under its name or its
\* renamed name.
C7_RemovedOnlyAfterImagePlaced ==
  (Distribution /\ Exists(call.pre, call.name) /\ ~Exists(staging, call.name))
    => \E a \in Albums : HasCopy(a, call.name, call.pre[call.name])

\* C8: an image and its live photo that were staged together are removed
\* from staging together: no call leaves exactly one of the two behind.
C8_PairRemovedTogether ==
  Distribution =>
    \A k \in 0..(MaxLvl - 1) :
      (Exists(call.pre, <<k, "JPG">>) /\ Exists(call.pre, <<k, "MOV">>))
        => (Exists(staging, <<k, "JPG">>) <=> Exists(staging, <<k, "MOV">>))

\* C9: with an allow-list, process_album_image leaves every album folder
\* outside the list as it was (not created, not written), makes its
\* placements in every allowed album of the image's album set, counts
\* success over those alone, and changes nothing when none is allowed.
C9_AllowListFrame ==
  (Distribution /\ allowed # NoAllowList) =>
    /\ \A a \in Albums \ allowed : albums[a] = call.preAlbums[a] /\ call.img[a] = "none"
    /\ ReachedLoop =>
         /\ \A a \in call.album_set \cap allowed :
              /\ albums[a].exists
              /\ call.img[a] # "none"
              /\ call.img[a] = "ok" => HasCopy(a, call.name, call.pre[call.name])
         /\ call.any <=> \E a \in call.album_set \cap allowed :
                           call.img[a] = "ok" \/ call.liv[a] = "ok"
         /\ ~Exists(staging, call.name) <=>
              \E a \in call.album_set \cap allowed :
                call.img[a] = "ok" \/ call.liv[a] = "ok"
    /\ call.album_set \cap allowed = {} => TargetUntouched

\* C9's case: the allow-list is {A}, the image belongs to A and B, it was
\* placed into A and removed from staging, and B's folder was not created.
C9_Witness ==
  /\ Distribution
  /\ allowed = {"A"} /\ call.album_set = {"A", "B"}
  /\ call.img["A"] = "ok"
  /\ HasCopy("A", call.name, call.pre[call.name])
  /\ ~albums["B"].exists
  /\ ~Exists(staging, call.name)

Created == {n \in FsNames : ~Exists(DestBefore, n) /\ Exists(DestAfter, n)}
\* The number of "_1" suffixes a name ends in.
Level(n) == n[1]

\* C11: no placement creates a second-level variant: a name the copier
\* creates carries at most one "_1" suffix (X.ext or X_1.ext, never
\* X_1_1.ext), whatever the name of the source file.
C11_NoSecondLevel ==
  Placement => \A n \in Created : Level(n) <= 1

\* The last process_album_image call entered its album loop and, in every
\* album whose folder exists or could be created, attempted the image and,
\* when there is one, the live photo, whatever failed in another album; and
\* a failing os.remove of the image does not keep the live photo.
AlbumsAllAttempted ==
  (Distribution /\ ReachedLoop) =>
    /\ \A a \in call.entered :
         \/ ~call.preAlbums[a].exists /\ <<"mkdir", a, "-">> \in call.flts
         \/ call.img[a] # "none" /\ (call.live # Absent => call.liv[a] # "none")
    /\ (call.any /\ call.live # Absent /\ <<"rm", "-", "live">> \notin call.flts)
         => ~Exists(staging, LivePhotoName(call.name))

CopyToAbsentFailed ==
  /\ Placement /\ CopyFails(call.flt)
  /\ ~Exists(DestBefore, call.name)
  /\ call.op = "copy_file_to_album" => ~Exists(DestBefore, RenamedName(call.name))
\* What the placement returns for a rename conflict (Skipped).
SkippedValue == IF call.op = "copy_file_with_md5" THEN None ELSE FALSE

\* C13: a placement whose copy to an absent destPath fails hands its caller
\* something else than what it returns for a rename conflict, so the caller
\* can tell the failed copy from Skipped.
C13_CopyFailureDistinguishable ==
  CopyToAbsentFailed => call.ret # SkippedValue

\* C13, amended: the failure of the copy to an absent destPath is caught in
\* the placement; the caller gets no exception and no success, but the very
\* value a rename conflict returns (None, False).
C13_CopyFailureReportedAsSkipped ==
  CopyToAbsentFailed => (call.ret = SkippedValue /\ ~ReportsSuccess)

\* C13's case: copy_file_to_album found the name free, its copy broke off
\* after writing a part of the file, and it returned False.
C13_Witness ==
  /\ call.op = "copy_file_to_album" /\ call.flt = "trunc"
  /\ ~Exists(DestBefore, call.name)
  /\ DestAfter[call.name] = Trunc
  /\ call.ret = FALSE

\* C14: a process_album_image call that finds in staging the renamed variant
\* of the image or of its live photo returns before its album loop and
\* leaves staging and every album folder as they were (no folder created,
\* no file copied, nothing deleted); when the renamed variant of the image
\* is there, that return is taken even if the image itself is missing.
C14_RenamedVariantSkips ==
  (Distribution /\ (\/ Exists(call.pre, RenamedName(call.name))
                    \/ Exists(call.pre, LivePhotoRenamedName(call.name))))
    => /\ TargetUntouched
       /\ ~ReachedLoop
       /\ \A a \in Albums : call.img[a] = "none" /\ call.liv[a] = "none"
       /\ Exists(call.pre, RenamedName(call.name)) => call.outcome = "renamed"

\* C14's case: the image is staged, the renamed variant of its live photo
\* too, the image belongs to an album that would have been entered, and the
\* call returned at the live-photo check leaving everything in place.
C14_Witness ==
  /\ Distribution /\ call.outcome = "liverenamed"
  /\ call.name[2] = "JPG"
  /\ AlbumFilter(call.album_set, allowed) # {}
  /\ Exists(staging, call.name)
  /\ \A a \in call.album_set : ~albums[a].exists

\* The data rows of the listing file f of partition p that name image n in
\* their first column.
NamedInDataRow(p, f, n) ==
  \E i \in DOMAIN listing[p].files[f].rows :
    LET row == listing[p].files[f].rows[i]
    IN  row # <<>> /\ ImageNameOf(row) = <<n>>
\* The album names whose listing file, in any partition, names image n in a
\* data row.
AlbumsNaming(n) ==
  {AlbumName(f) : f \in {g \in ListingNames :
     \E p \in Parts : /\ listing[p].exists /\ listing[p].files[g].there /\ IsCsv(g)
                      /\ NamedInDataRow(p, g, n)}}

\* C15: the mapping build_global_album_mapping returns gives every image
\* name exactly the albums whose listing file, in any partition, names it in
\* the first column of a data row, whether or not the file starts with a
\* header row.
C15_MappingIsUnion ==
  pc = "mapped" => \A n \in SrcNames : index[n] = AlbumsNaming(n)

\* C15, for listing files that all start with a header row: the mapping is
\* exactly that union.
C15_HeadedMappingIsUnion ==
  (pc = "mapped" /\ \A p \in Parts, f \in ListingNames :
                      listing[p].files[f].there => listing[p].files[f].header)
    => \A n \in SrcNames : index[n] = AlbumsNaming(n)

\* The target root now.
TargetRoot == [staging |-> staging, albums |-> albums]
\* The names process_album_image looks at or writes for an entry: the image,
\* its renamed variant, its live photo and the renamed live photo.
Touched(n) == {n, RenamedName(n), LivePhotoName(n), LivePhotoRenamedName(n)}
Unrelated(m, n) == Touched(m) \cap Touched(n) = {}

\* C16: phase 2 over two entries of the album index leaves the same staging
\* directory and the same album folders whichever entry is processed
\* first, whatever the two file names are.
C16_Phase2OrderFree ==
  pc = "done" => TargetRoot = alt

\* C16, amended: phase 2 over two entries leaves the same target root in
\* either order when the two entries share no name among image, renamed
\* image, live photo and renamed live photo.
C16_UnrelatedOrderFree ==
  (pc = "done" /\ \A m, n \in Entries(index) : m # n => Unrelated(m, n))
    => TargetRoot = alt

\* C16's case: two entries with unrelated names and a common album were
\* both staged, and phase 2 distributed and removed both.
C16_Witness ==
  /\ pc = "done" /\ call.op = "process_album_image"
  /\ \E m, n \in Entries(index) :
       /\ m # n /\ Unrelated(m, n)
       /\ index[m] \cap index[n] # {}
       /\ gone[m].img # Absent /\ gone[n].img # Absent

\* All files of one name, in the Photos folders and in the target root as
\* it was found, have the same content.
SameNamedIdentical ==
  \A n \in SrcNames :
    \A c, d \in {source[p].files[n] : p \in {q \in Parts : source[q].exists}} \cup {snap[n]} :
      (c # Absent /\ d # Absent) => c = d

\* C17: phase 1 leaves the same staging directory (the same names with the
\* same content under each) whatever the order the partitions are
\* processed in, whatever they hold.
C17_Phase1OrderFree ==
  pc = "mapping" => staging = alt.staging

\* C17, amended: phase 1 leaves the same staging directory in any order of
\* the partitions when all same-named files, in the partitions and in the
\* target root, have the same content.
C17_IdenticalOrderFree ==
  (pc = "mapping" /\ SameNamedIdentical) => staging = alt.staging

\* C17's case: the partitions were processed in the reverse order; both
\* hold the same file under one name, one holds another file too, and all
\* are staged.
C17_Witness ==
  /\ pc = "mapping" /\ call.op = "process_part_phase1" /\ call.part = 1
  /\ SameNamedIdentical
  /\ \E n, m \in SrcNames :
       /\ n # m
       /\ Exists(source[1].files, n) /\ Exists(source[MaxParts].files, n)
       /\ Exists(source[MaxParts].files, m)
       /\ staging[n] = source[1].files[n]
       /\ staging[m] = source[MaxParts].files[m]

\* Both calls have returned; both found destPath absent; the two source
\* files differ.
BothDone == \A w \in Workers : race.wk[w].pc = "done"
BothSawAbsent == \A w \in Workers : race.wk[w].saw = "absent"
DifferentContent == race.wk["w1"].c # race.wk["w2"].c

\* C18: whenever two concurrent placements of different files under one
\* name have both found destPath absent, both write destPath and both report
\* success, no renamed file is created, and destPath ends with one content
\* (or a mix): the content of at least one of the two files is stored by
\* neither call.
C18_RaceLosesContent ==
  (BothDone /\ BothSawAbsent /\ DifferentContent) =>
    /\ \A w \in Workers : race.wk[w].ret = Success(race.name)
    /\ RaceDir = [race.pre EXCEPT ![race.name] = RaceDir[race.name]]
    /\ RaceDir[race.name] \in {race.wk["w1"].c, race.wk["w2"].c, Mixed}
    /\ \E w \in Workers : RaceDir[race.name] # race.wk[w].c

\* C18's case: both workers found destPath absent, both copied and returned
\* the path; destPath holds the second worker's file and the first worker's
\* content is neither there nor under the renamed name.
C18_Witness ==
  /\ race.fn = "copy_file_with_md5"
  /\ BothDone /\ BothSawAbsent /\ DifferentContent
  /\ \A w \in Workers : race.wk[w].ret = race.name
  /\ staging[race.name] = race.wk["w2"].c
  /\ staging[RenamedName(race.name)] # race.wk["w1"].c

\* The files of dir are all still there in dir2.
NoneDeleted(dir, dir2) == \A n \in FsNames : Exists(dir, n) => Exists(dir2, n)

\* C19: no step of phase 1 changes the Photos folders of the source (no
\* file deleted, renamed or changed) and none deletes a staged file: the set
\* of staged files only grows.
C19_Phase1OnlyCopies ==
  [][(pc \in {"part", "files"}) => (source' = source /\ NoneDeleted(staging, staging'))]_vars

\* C19's case: phase 1 is over; its last placement found its name taken and
\* staged the file under the renamed name; the file found is still staged and
\* the source file is still in its partition.
C19_Witness ==
  /\ pc = "mapping" /\ call.op = "copy_file_with_md5"
  /\ call.ret = RenamedName(call.name)
  /\ Exists(call.pre, call.name) /\ staging[call.name] = call.pre[call.name]
  /\ \E p \in Parts : source[p].files[call.name] = call.c

\* C20: in a sequential run no step changes the content of a file that
\* exists in the staging root or in an album folder: every write creates a
\* file that was not there, and a file only disappears when phase 2 deletes
\* the staged image it has distributed, or its live photo.
C20_NoOverwrite ==
  [][/\ \A n \in FsNames :
          Exists(staging, n) =>
            \/ staging'[n] = staging[n]
            \/ /\ pc = "albums" /\ staging'[n] = Absent
               /\ call'.any
               /\ n \in {call'.name, LivePhotoName(call'.name)}
     /\ \A a \in Albums :
          /\ albums[a].exists => albums'[a].exists
          /\ \A n \in FsNames :
               Exists(albums[a].files, n) => albums'[a].files[n] = albums[a].files[n]
    ]_vars

\* C20's case: phase 2 found in an album a file of the image's name with
\* another content, placed the image beside it under the renamed name, left
\* the file found as it was, and deleted the staged original.
C20_Witness ==
  /\ Distribution
  /\ ~Exists(staging, call.name)
  /\ \E a \in Albums :
       /\ Exists(call.preAlbums[a].files, call.name)
       /\ call.preAlbums[a].files[call.name] # call.pre[call.name]
       /\ albums[a].files[call.name] = call.preAlbums[a].files[call.name]
       /\ albums[a].files[RenamedName(call.name)] = call.pre[call.name]

=============================================================================
